---- MODULE Spec2Model ----
(***************************************************************************)
(* Model of the UTXO key manager (keymanager.ts): transaction assembly     *)
(* (createTx), signing (signTx) and the address / script translator.       *)
(* The exported functions are pure; every specification below draws the    *)
(* arguments of the calls in Init and applies the functions in its         *)
(* actions.  Hashes, keys and signatures are ideal: a hash is an injective *)
(* table, a signature records its signer and the digest it was made over.  *)
(***************************************************************************)
EXTENDS Integers, Sequences, FiniteSets, TLC

VARIABLES
  inputs,      \* createTxArgs.inputs
  outputs,     \* createTxArgs.outputs
  created,     \* created[rbf]: what createTx({inputs, outputs, rbf}) gave the caller
  signArgs,    \* the SignTxArgs of the last signTx call
  signed,      \* what that signTx call gave the caller
  addrArgs,    \* the AddressToScriptPubkeyArgs of the call
  scriptOut,   \* what addressToScriptPubkey(addrArgs) gave the caller
  backType,    \* the addressType passed to scriptPubkeyToAddress
  addrOut,     \* what scriptPubkeyToAddress gave for the script of scriptOut
  keyArgs,     \* the arguments of the extended-key calls
  xprivOut,    \* what mnemonicToXPriv gave the caller
  xpubOut,     \* what xprivToXPub(keyArgs.xpriv) gave the caller
  pubArg,      \* the xpub passed to xpubToPubkey
  pubOut,      \* what xpubToPubkey(pubArg) gave the caller
  privOut,     \* what xprivToPrivateKey(keyArgs.xpriv) gave the caller
  privPubOut,  \* what privateKeyToPubkey gave for the key of privOut
  edgeArgs,    \* the ToEdgeTransactionArgs of the call
  fetched,     \* the address objects fetchAddress handed out, as the call left them
  edgeOut      \* what toEdgeTransaction(edgeArgs) gave the caller

txVars == <<inputs, outputs, created, signArgs, signed>>
addrVars == <<addrArgs, scriptOut, backType, addrOut>>
keyVars == <<keyArgs, xprivOut, xpubOut, pubArg, pubOut, privOut, privPubOut>>
edgeVars == <<edgeArgs, fetched, edgeOut>>
vars == <<txVars, addrVars, keyVars, edgeVars>>

(***************************************************************************)
(* Bounds of the model.                                                    *)
(***************************************************************************)
MaxInputs == 2
MaxOutputs == 2
MaxKeys == 3

SeqsUpTo(S, n) == UNION {[1..m -> S] : m \in 0..n}

Min(a, b) == IF a < b THEN a ELSE b

(***************************************************************************)
(* Keys, hashes and scripts.                                               *)
(***************************************************************************)
Keys == {"kA", "kB"}

\* bitcoin.ECPair.fromPrivateKey(...).publicKey
PubKey(k) == IF k = "kA" THEN "pubA" ELSE "pubB"

\* hash160 of a public key
Hash160(pub) == IF pub = "pubA" THEN "hA" ELSE "hB"

NoScript == [t |-> "undefined", h |-> ""]
P2PKH(h) == [t |-> "p2pkh", h |-> h]
P2WPKH(h) == [t |-> "p2wpkh", h |-> h]
P2SH(h) == [t |-> "p2sh", h |-> h]

\* hash160 of a script (the hash a script-hash output commits to)
ScriptHash160(script) ==
  IF script.t = "p2wpkh" THEN (IF script.h = "hA" THEN "sA" ELSE "sB")
  ELSE "sX"

(***************************************************************************)
(* TxInput, TxOutput (keymanager.ts 135-148).                              *)
(***************************************************************************)
Legacy == "legacy"
Segwit == "segwit"

NoValue == -1
NoTx == [txid |-> "undefined", outs |-> <<>>]

UtxoValue == 2

\* The outputs the model's wallet can spend: an outpoint and the key owning it.
Outpoints == {[txid |-> "t1", index |-> 0], [txid |-> "t2", index |-> 1]}

Owner(txid) == IF txid = "t1" THEN "kA" ELSE "kB"

OwnerHash(txid) == Hash160(PubKey(Owner(txid)))

\* The full previous transaction of a legacy outpoint: a pay-to-pubkey-hash
\* output of the owner at the outpoint's index.
PrevTxOf(op) ==
  [txid |-> op.txid,
   outs |-> [j \in 1..(op.index + 1) |->
               IF j = op.index + 1
               THEN [script |-> P2PKH(OwnerHash(op.txid)), value |-> UtxoValue]
               ELSE [script |-> P2PKH("hOther"), value |-> 1]]]

LegacyInputs ==
  {[type |-> Legacy, prevTxid |-> op.txid, index |-> op.index, prevTx |-> ptx,
    prevScriptPubkey |-> NoScript, redeemScript |-> NoScript, value |-> NoValue] :
     <<op, ptx>> \in {<<o, p>> \in Outpoints \X ({NoTx} \cup {PrevTxOf(o2) : o2 \in Outpoints}) :
                        p = NoTx \/ p.txid = o.txid}}

SegwitInputs ==
  UNION {
    {[type |-> Segwit, prevTxid |-> op.txid, index |-> op.index, prevTx |-> NoTx,
      prevScriptPubkey |-> spk, redeemScript |-> rs, value |-> v] :
        spk \in {NoScript, P2WPKH(OwnerHash(op.txid)),
                 P2SH(ScriptHash160(P2WPKH(OwnerHash(op.txid))))},
        rs \in {NoScript, P2WPKH(OwnerHash(op.txid))},
        v \in {NoValue, UtxoValue}} : op \in Outpoints}

TxInputs == LegacyInputs \cup SegwitInputs

TxOutputs == {[scriptPubkey |-> P2PKH("hX"), amount |-> 1],
              [scriptPubkey |-> P2WPKH("hY"), amount |-> 2]}

(***************************************************************************)
(* Completions: a call returns a value or throws.                          *)
(***************************************************************************)
NotCalled == [status |-> "notcalled", error |-> "", ret |-> <<>>]
Returned(v) == [status |-> "returned", error |-> "", ret |-> <<v>>]
Threw(msg) == [status |-> "threw", error |-> msg, ret |-> <<>>]

\* Internal steps on the Psbt object: the object after the step, or the error.
Ok(psbt) == [threw |-> FALSE, error |-> "", psbt |-> psbt]
Fail(msg, psbt) == [threw |-> TRUE, error |-> msg, psbt |-> psbt]

(***************************************************************************)
(* bitcoin.Psbt: the unsigned transaction and the per-input data.          *)
(***************************************************************************)
NoWitnessUtxo == [script |-> NoScript, value |-> NoValue]

\* The digest an input's signature is made over: the input's position, the
\* script and (witness digests only) the value it commits to.  The unsigned
\* transaction is the same in every digest of one Psbt and is left out.
NoHash == [index |-> 0, script |-> NoScript, value |-> NoValue, witness |-> FALSE]
hashForSignature(i, script) ==
  [index |-> i, script |-> script, value |-> NoValue, witness |-> FALSE]
hashForWitnessV0(i, script, value) ==
  [index |-> i, script |-> script, value |-> value, witness |-> TRUE]

\* keyPair.sign(hash) and keyPair.verify(hash, signature)
NoSig == [signer |-> "", hash |-> NoHash]
sign(key, hash) == [signer |-> key, hash |-> hash]
verify(pubkey, hash, signature) ==
  signature.signer \in Keys /\ PubKey(signature.signer) = pubkey /\ signature.hash = hash

NoUnlock == [pubkey |-> "", signature |-> NoSig]

EmptyPsbt == [inputs |-> <<>>, outputs |-> <<>>]

\* psbt.addInput stores the txid as the prevout hash in internal byte order.
ReverseTxid(txid) == [le |-> txid]
TxidOfHash(hash) == hash.le

PsbtInput(hash, index, sequence, nonWitnessUtxo, witnessUtxo, redeemScript) ==
  [hash |-> ReverseTxid(hash), index |-> index, sequence |-> sequence,
   nonWitnessUtxo |-> nonWitnessUtxo, witnessUtxo |-> witnessUtxo,
   redeemScript |-> redeemScript, partialSig |-> <<>>,
   finalized |-> FALSE, unlock |-> NoUnlock]

\* As addInput, putting the new input first.
addInputFront(psbt, input) ==
  IF \E j \in 1..Len(psbt.inputs) :
        psbt.inputs[j].hash = input.hash /\ psbt.inputs[j].index = input.index
  THEN Fail("Duplicate input detected.", psbt)
  ELSE Ok([psbt EXCEPT !.inputs = <<input>> \o @])

\* psbt.addInput: appends the input; a second input spending the same
\* outpoint is refused.
addInput(psbt, input) ==
  IF \E j \in 1..Len(psbt.inputs) :
        psbt.inputs[j].hash = input.hash /\ psbt.inputs[j].index = input.index
  THEN Fail("Duplicate input detected.", psbt)
  ELSE Ok([psbt EXCEPT !.inputs = Append(@, input)])

\* psbt.addOutput
addOutput(psbt, output) == [psbt EXCEPT !.outputs = Append(@, output)]

\* psbt.toBase64 / Psbt.fromBase64
toBase64(psbt) == [b64 |-> psbt]
fromBase64(tx) == tx.b64

(***************************************************************************)
(* createTx (keymanager.ts 639-704).                                       *)
(***************************************************************************)
\* Unsigned 32-bit numbers as two 16-bit limbs, value = hi * 2^16 + lo
\* (a sequence number does not fit the checker's integers).
Limb == 2 ^ 16
U32(hi, lo) == [hi |-> hi, lo |-> lo]
IsU32(x) == x.hi \in 0..(Limb - 1) /\ x.lo \in 0..(Limb - 1)
Less32(a, b) == a.hi < b.hi \/ (a.hi = b.hi /\ a.lo < b.lo)
\* a - n for a small n: the number type is a double, so nothing wraps; a
\* negative result has hi = -1 and is no unsigned 32-bit number.
Sub32(a, n) ==
  IF a.lo >= n THEN U32(a.hi, a.lo - n) ELSE U32(a.hi - 1, a.lo + Limb - n)

\* 0xffffffff, line 641
MaxSequence == U32(Limb - 1, Limb - 1)
\* line 643
RbfDelta == 2

\* As SequenceOf, subtracting one too few.
SequenceOfOffByOne(rbf) == IF rbf THEN Sub32(MaxSequence, RbfDelta - 1) ELSE MaxSequence

\* As SequenceOf, never lowering the sequence.
SequenceOfIgnoringRbf(rbf) == MaxSequence

\* lines 641-644
SequenceOf(rbf) == IF rbf THEN Sub32(MaxSequence, RbfDelta) ELSE MaxSequence

\* As createTxInput, with line 662's "or" an "and": a witness input is
\* refused only when both the script and the value are missing.
createTxInputBothMissing(psbt, input, sequence) ==
  IF input.type = Legacy
  THEN IF input.prevTx = NoTx
       THEN Fail("legacy inputs require the full previous transaction to be passed", psbt)
       ELSE addInput(psbt, PsbtInput(input.prevTxid, input.index, sequence,
                                     input.prevTx, NoWitnessUtxo, NoScript))
  ELSE IF input.prevScriptPubkey = NoScript /\ input.value = NoValue
       THEN Fail("segwit inputs require a script pubkey and value to be passed", psbt)
       ELSE addInput(psbt, PsbtInput(input.prevTxid, input.index, sequence, NoTx,
                                     [script |-> input.prevScriptPubkey,
                                      value |-> input.value], input.redeemScript))

\* One iteration of the input loop, lines 646-695.
createTxInput(psbt, input, sequence) ==
  IF input.type = Legacy
  THEN IF input.prevTx = NoTx
       THEN Fail("legacy inputs require the full previous transaction to be passed", psbt)
       ELSE addInput(psbt, PsbtInput(input.prevTxid, input.index, sequence,
                                     input.prevTx, NoWitnessUtxo, NoScript))
  ELSE IF input.prevScriptPubkey = NoScript \/ input.value = NoValue
       THEN Fail("segwit inputs require a script pubkey and value to be passed", psbt)
       ELSE IF input.redeemScript = NoScript
            THEN addInput(psbt, PsbtInput(input.prevTxid, input.index, sequence, NoTx,
                                          [script |-> input.prevScriptPubkey,
                                           value |-> input.value], NoScript))
            ELSE addInput(psbt, PsbtInput(input.prevTxid, input.index, sequence, NoTx,
                                          [script |-> input.prevScriptPubkey,
                                           value |-> input.value], input.redeemScript))

\* The input loop, lines 645-696: stops at the first throw.
RECURSIVE createTxInputs(_, _, _, _)
createTxInputs(psbt, ins, i, sequence) ==
  IF i > Len(ins) THEN Ok(psbt)
  ELSE LET step == createTxInput(psbt, ins[i], sequence) IN
       IF step.threw THEN step
       ELSE createTxInputs(step.psbt, ins, i + 1, sequence)

\* The output loop, lines 697-702.
RECURSIVE createTxOutputs(_, _, _)
createTxOutputs(psbt, outs, i) ==
  IF i > Len(outs) THEN psbt
  ELSE createTxOutputs(addOutput(psbt, [script |-> outs[i].scriptPubkey,
                                        value |-> outs[i].amount]), outs, i + 1)

createTx(args) ==
  LET withInputs == createTxInputs(EmptyPsbt, args.inputs, 1, SequenceOf(args.rbf)) IN
  IF withInputs.threw THEN Threw(withInputs.error)
  ELSE Returned(toBase64(createTxOutputs(withInputs.psbt, args.outputs, 1)))

(***************************************************************************)
(* Psbt signing, as signTx uses it (keymanager.ts 707-718).                *)
(***************************************************************************)
HashOk(script, hash) == [threw |-> FALSE, error |-> "", script |-> script, hash |-> hash]
HashFail(msg) == [threw |-> TRUE, error |-> msg, script |-> NoScript, hash |-> NoHash]

\* The script a signature must satisfy and its digest (Psbt getHashForSig).
\* i is the 1-based position of the input.
getHashForSig(input, i) ==
  IF input.nonWitnessUtxo # NoTx
  THEN IF input.nonWitnessUtxo.txid # TxidOfHash(input.hash)
       THEN HashFail("Non-witness UTXO hash doesn't match the hash specified in the prevout")
       ELSE IF input.index + 1 > Len(input.nonWitnessUtxo.outs)
       THEN HashFail("prevout is undefined")
       ELSE LET prevout == input.nonWitnessUtxo.outs[input.index + 1]
                script == IF input.redeemScript # NoScript
                          THEN input.redeemScript ELSE prevout.script IN
            IF input.redeemScript # NoScript
               /\ P2SH(ScriptHash160(input.redeemScript)) # prevout.script
            THEN HashFail("Redeem script doesn't match the scriptPubKey in the prevout")
            ELSE IF script.t = "p2wpkh"
            THEN HashOk(script, hashForWitnessV0(i, P2PKH(script.h), prevout.value))
            ELSE HashOk(script, hashForSignature(i, script))
  ELSE IF input.witnessUtxo # NoWitnessUtxo
  THEN LET script == IF input.redeemScript # NoScript
                     THEN input.redeemScript ELSE input.witnessUtxo.script IN
       IF input.redeemScript # NoScript
          /\ P2SH(ScriptHash160(input.redeemScript)) # input.witnessUtxo.script
       THEN HashFail("Redeem script doesn't match the scriptPubKey in the prevout")
       ELSE IF script.t = "p2wpkh"
       THEN HashOk(script, hashForWitnessV0(i, P2PKH(script.h), input.witnessUtxo.value))
       ELSE HashFail("Input has witnessUtxo but non-segwit script")
  ELSE HashFail("Need a Utxo input item for signing")

\* As checkScriptForPubkey, accepting every key.
checkScriptForAnyPubkey(pubkey, script) == TRUE

\* Psbt checkScriptForPubkey: the script holds the key or its hash.
checkScriptForPubkey(pubkey, script) == script.h = Hash160(pubkey)

\* psbt.signInput(i - 1, ECPair.fromPrivateKey(key)), lines 709-714.
signInput(psbt, i, key) ==
  IF i > Len(psbt.inputs) THEN Fail("No input #", psbt)
  ELSE LET input == psbt.inputs[i]
           h == getHashForSig(input, i) IN
       IF h.threw THEN Fail(h.error, psbt)
       ELSE IF ~checkScriptForPubkey(PubKey(key), h.script)
       THEN Fail("Can not sign for this input with the key", psbt)
       ELSE IF \E j \in 1..Len(input.partialSig) : input.partialSig[j].pubkey = PubKey(key)
       THEN Fail("Can not add duplicate data to array", psbt)
       ELSE Ok([psbt EXCEPT !.inputs[i].partialSig =
                  Append(@, [pubkey |-> PubKey(key), signature |-> sign(key, h.hash)])])

\* psbt.validateSignaturesOfInput(i - 1), line 715: throws, or returns whether
\* every signature of the input verifies.
validateSignaturesOfInput(psbt, i) ==
  IF i > Len(psbt.inputs) \/ Len(psbt.inputs[i].partialSig) < 1
  THEN [threw |-> TRUE, error |-> "No signatures to validate", valid |-> FALSE]
  ELSE LET input == psbt.inputs[i]
           h == getHashForSig(input, i) IN
       IF h.threw THEN [threw |-> TRUE, error |-> h.error, valid |-> FALSE]
       ELSE IF \E j \in 1..Len(input.partialSig) :
                  ~checkScriptForPubkey(input.partialSig[j].pubkey, h.script)
       THEN [threw |-> TRUE, error |-> "Can not verify for this input with the key",
             valid |-> FALSE]
       ELSE [threw |-> FALSE, error |-> "",
             valid |-> \A j \in 1..Len(input.partialSig) :
                          verify(input.partialSig[j].pubkey, h.hash,
                                 input.partialSig[j].signature)]

\* The script psbt.finalizeInput classifies (Psbt getScriptFromInput).
getScriptFromInput(input) ==
  IF input.redeemScript # NoScript THEN input.redeemScript
  ELSE IF input.nonWitnessUtxo # NoTx
  THEN IF input.index + 1 > Len(input.nonWitnessUtxo.outs) THEN NoScript
       ELSE input.nonWitnessUtxo.outs[input.index + 1].script
  ELSE input.witnessUtxo.script

\* As finalizeInput, finalizing an input that has no signature.
finalizeInputUnsigned(psbt, i) ==
  LET input == psbt.inputs[i] IN
  Ok([psbt EXCEPT !.inputs[i].finalized = TRUE,
                  !.inputs[i].unlock = IF Len(input.partialSig) >= 1
                                       THEN input.partialSig[1] ELSE NoUnlock,
                  !.inputs[i].partialSig = <<>>])

\* psbt.finalizeInput: a pubkey-hash script needs exactly one signature.
finalizeInput(psbt, i) ==
  LET input == psbt.inputs[i]
      script == getScriptFromInput(input) IN
  IF script = NoScript THEN Fail("No script found for input #", psbt)
  ELSE IF script.t \in {"p2pkh", "p2wpkh"} /\ Len(input.partialSig) > 1
  THEN Fail("Too many signatures", psbt)
  ELSE IF ~(script.t \in {"p2pkh", "p2wpkh"} /\ Len(input.partialSig) = 1)
  THEN Fail("Can not finalize input #", psbt)
  ELSE Ok([psbt EXCEPT !.inputs[i].finalized = TRUE,
                       !.inputs[i].unlock = input.partialSig[1],
                       !.inputs[i].partialSig = <<>>])

RECURSIVE finalizeFrom(_, _)
finalizeFrom(psbt, i) ==
  IF i > Len(psbt.inputs) THEN Ok(psbt)
  ELSE LET step == finalizeInput(psbt, i) IN
       IF step.threw THEN step ELSE finalizeFrom(step.psbt, i + 1)

\* psbt.finalizeAllInputs(), line 717.
finalizeAllInputs(psbt) ==
  IF Len(psbt.inputs) = 0 THEN Fail("No input #0", psbt)
  ELSE finalizeFrom(psbt, 1)

RECURSIVE SumValues(_, _)
SumValues(values, i) ==
  IF i > Len(values) THEN 0 ELSE values[i] + SumValues(values, i + 1)

InputValue(input) ==
  IF input.nonWitnessUtxo # NoTx
  THEN input.nonWitnessUtxo.outs[input.index + 1].value
  ELSE input.witnessUtxo.value

\* psbt.extractTransaction(), line 718: every input finalized and the
\* outputs not spending more than the inputs.
extractTransaction(psbt) ==
  IF \E i \in 1..Len(psbt.inputs) : ~psbt.inputs[i].finalized
  THEN [threw |-> TRUE, error |-> "Not finalized", tx |-> <<>>]
  ELSE IF SumValues([i \in 1..Len(psbt.inputs) |-> InputValue(psbt.inputs[i])], 1)
          < SumValues([j \in 1..Len(psbt.outputs) |-> psbt.outputs[j].value], 1)
  THEN [threw |-> TRUE, error |-> "Outputs are spending more than Inputs", tx |-> <<>>]
  ELSE [threw |-> FALSE, error |-> "",
        tx |-> <<[ins |-> [i \in 1..Len(psbt.inputs) |->
                             [hash |-> psbt.inputs[i].hash,
                              index |-> psbt.inputs[i].index,
                              sequence |-> psbt.inputs[i].sequence,
                              unlock |-> psbt.inputs[i].unlock]],
                   outs |-> psbt.outputs]>>]

\* Transaction.toHex
toHex(tx) == [hex |-> tx]

(***************************************************************************)
(* signTx (keymanager.ts 706-719).                                         *)
(***************************************************************************)
\* How many inputs of the call's Psbt object carry a signature.
SignedCount(psbt) ==
  Cardinality({i \in 1..Len(psbt.inputs) :
                 psbt.inputs[i].partialSig # <<>> \/ psbt.inputs[i].finalized})

\* As signTxLoop, signing input i with whichever key of the list fits it.
RECURSIVE signTxLoopByOwner(_, _, _)
signTxLoopByOwner(psbt, privateKeys, i) ==
  IF i > Len(privateKeys) THEN Ok(psbt)
  ELSE LET fits == {j \in 1..Len(privateKeys) : ~signInput(psbt, i, privateKeys[j]).threw}
           key == IF fits = {} THEN privateKeys[i]
                  ELSE privateKeys[CHOOSE j \in fits : TRUE]
           s == signInput(psbt, i, key) IN
       IF s.threw THEN s
       ELSE LET v == validateSignaturesOfInput(s.psbt, i) IN
            IF v.threw THEN Fail(v.error, psbt)
            ELSE signTxLoopByOwner(s.psbt, privateKeys, i + 1)

\* The loop of lines 708-716; the value validateSignaturesOfInput returns is
\* dropped, only its throwing ends the loop.
RECURSIVE signTxLoop(_, _, _)
signTxLoop(psbt, privateKeys, i) ==
  IF i > Len(privateKeys) THEN Ok(psbt)
  ELSE LET s == signInput(psbt, i, privateKeys[i]) IN
       IF s.threw THEN s
       ELSE LET v == validateSignaturesOfInput(s.psbt, i) IN
            IF v.threw THEN Fail(v.error, psbt)
            ELSE signTxLoop(s.psbt, privateKeys, i + 1)

\* As signTxThrow, handing the partly signed Psbt to the caller.
signTxThrowKeeping(msg, psbt) ==
  [status |-> "threw", error |-> msg, ret |-> <<toBase64(psbt)>>,
   signedBefore |-> SignedCount(psbt)]

\* A throw leaves the function with the error alone: the Psbt object is a
\* local of the call.  signedBefore records, for the properties only, how
\* many inputs that object had signed.
signTxThrow(msg, psbt) ==
  [status |-> "threw", error |-> msg, ret |-> <<>>, signedBefore |-> SignedCount(psbt)]

signTxReturn(hex) ==
  [status |-> "returned", error |-> "", ret |-> <<hex>>, signedBefore |-> 0]

SignNotCalled == [status |-> "notcalled", error |-> "", ret |-> <<>>, signedBefore |-> 0]

signTx(args) ==
  LET loop == signTxLoop(fromBase64(args.tx), args.privateKeys, 1) IN
  IF loop.threw THEN signTxThrow(loop.error, loop.psbt)
  ELSE LET fin == finalizeAllInputs(loop.psbt) IN
       IF fin.threw THEN signTxThrow(fin.error, fin.psbt)
       ELSE LET ext == extractTransaction(fin.psbt) IN
            IF ext.threw THEN signTxThrow(ext.error, fin.psbt)
            ELSE signTxReturn(toHex(ext.tx[1]))

(***************************************************************************)
(* Coins and networks (keymanager.ts 16-27, 164-245).                      *)
(***************************************************************************)
Mainnet == "mainnet"
Testnet == "testnet"
Networks == {Mainnet, Testnet}

PurposeLegacy == "legacy"
PurposeSegwit == "segwit"
PurposeWrappedSegwit == "wrappedSegwit"

\* A version-byte pair the coin's table does not define.
NoPrefix == -1
\* coinPrefixes.bech32 undefined
NoBech32 == ""

CoinPrefixes(lXPub, lXPriv, sXPub, sXPriv, wXPub, wXPriv, bech32, pkh, sh, wif) ==
  [legacyXPub |-> lXPub, legacyXPriv |-> lXPriv,
   segwitXPub |-> sXPub, segwitXPriv |-> sXPriv,
   wrappedSegwitXPub |-> wXPub, wrappedSegwitXPriv |-> wXPriv,
   bech32 |-> bech32, pubkeyHash |-> pkh, scriptHash |-> sh, wif |-> wif]

\* The coin table: bitcoin, with every purpose; bitcoincash, legacy only and
\* without a witness prefix; and a coin whose table gives pay-to-pubkey-hash
\* and pay-to-script-hash addresses one and the same version byte on mainnet.
CoinNames == {"bitcoin", "bitcoincash", "onebyte"}

getCoinFromString(coinString) ==
  CASE coinString = "bitcoin" ->
         [segwit |-> TRUE,
          mainnetConstants |-> CoinPrefixes(76067358, 76066276, 78792518, 78791436,
                                            77429938, 77428856, "bc", 0, 5, 128),
          testnetConstants |-> CoinPrefixes(70617039, 70615956, 73342198, 73341116,
                                            71979618, 71978536, "tb", 111, 196, 239)]
    [] coinString = "bitcoincash" ->
         [segwit |-> FALSE,
          mainnetConstants |-> CoinPrefixes(76067358, 76066276, NoPrefix, NoPrefix,
                                            NoPrefix, NoPrefix, NoBech32, 0, 5, 128),
          testnetConstants |-> CoinPrefixes(70617039, 70615956, NoPrefix, NoPrefix,
                                            NoPrefix, NoPrefix, NoBech32, 111, 196, 239)]
    [] OTHER ->
         [segwit |-> FALSE,
          mainnetConstants |-> CoinPrefixes(76067358, 76066276, 78792518, NoPrefix,
                                            NoPrefix, NoPrefix, NoBech32, 30, 30, 158),
          testnetConstants |-> CoinPrefixes(70617039, 70615956, NoPrefix, NoPrefix,
                                            NoPrefix, NoPrefix, "tb", 111, 196, 239)]

NoNetwork == [wif |-> -1, bip32 |-> [public |-> NoPrefix, private |-> NoPrefix],
              bech32 |-> "", pubKeyHash |-> -1, scriptHash |-> -1]

NetworkOk(network) == [threw |-> FALSE, error |-> "", network |-> network]
NetworkFail(msg) == [threw |-> TRUE, error |-> msg, network |-> NoNetwork]

\* As bip32NetworkFromCoinPrefix, taking the legacy version bytes where the
\* purpose's own are undefined.
bip32NetworkFromCoinPrefixLegacyFallback(sigType, coinPrefixes, segwit) ==
  LET network(xKeyPrefixes) ==
        NetworkOk([wif |-> coinPrefixes.wif, bip32 |-> xKeyPrefixes,
                   bech32 |-> IF coinPrefixes.bech32 = NoBech32
                              THEN "bc" ELSE coinPrefixes.bech32,
                   pubKeyHash |-> coinPrefixes.pubkeyHash,
                   scriptHash |-> coinPrefixes.scriptHash])
      legacy == [public |-> coinPrefixes.legacyXPub, private |-> coinPrefixes.legacyXPriv] IN
  CASE sigType = PurposeSegwit ->
         IF coinPrefixes.segwitXPub = NoPrefix \/ coinPrefixes.segwitXPriv = NoPrefix
         THEN network(legacy)
         ELSE network([public |-> coinPrefixes.segwitXPub,
                       private |-> coinPrefixes.segwitXPriv])
    [] sigType = PurposeWrappedSegwit ->
         IF coinPrefixes.wrappedSegwitXPub = NoPrefix
            \/ coinPrefixes.wrappedSegwitXPriv = NoPrefix
         THEN network(legacy)
         ELSE network([public |-> coinPrefixes.wrappedSegwitXPub,
                       private |-> coinPrefixes.wrappedSegwitXPriv])
    [] sigType = PurposeLegacy -> network(legacy)
    [] OTHER -> NetworkFail("invalid bip43 purpose type")

\* lines 178-229
bip32NetworkFromCoinPrefix(sigType, coinPrefixes, segwit) ==
  LET network(xKeyPrefixes) ==
        NetworkOk([wif |-> coinPrefixes.wif, bip32 |-> xKeyPrefixes,
                   bech32 |-> IF coinPrefixes.bech32 = NoBech32
                              THEN "bc" ELSE coinPrefixes.bech32,
                   pubKeyHash |-> coinPrefixes.pubkeyHash,
                   scriptHash |-> coinPrefixes.scriptHash]) IN
  CASE sigType = PurposeSegwit ->
         IF coinPrefixes.segwitXPub = NoPrefix \/ coinPrefixes.segwitXPriv = NoPrefix
         THEN NetworkFail("segwit xpub prefix is undefined")
         ELSE network([public |-> coinPrefixes.segwitXPub,
                       private |-> coinPrefixes.segwitXPriv])
    [] sigType = PurposeWrappedSegwit ->
         IF coinPrefixes.wrappedSegwitXPub = NoPrefix
            \/ coinPrefixes.wrappedSegwitXPriv = NoPrefix
         THEN NetworkFail("wrapped segwit xpub prefix is undefined")
         ELSE network([public |-> coinPrefixes.wrappedSegwitXPub,
                       private |-> coinPrefixes.wrappedSegwitXPriv])
    [] sigType = PurposeLegacy ->
         network([public |-> coinPrefixes.legacyXPub,
                  private |-> coinPrefixes.legacyXPriv])
    [] OTHER -> NetworkFail("invalid bip43 purpose type")

\* lines 231-245
bip32NetworkFromCoin(networkType, coinString, sigType) ==
  LET coin == getCoinFromString(coinString) IN
  IF networkType = Testnet
  THEN bip32NetworkFromCoinPrefix(sigType, coin.testnetConstants, coin.segwit)
  ELSE bip32NetworkFromCoinPrefix(sigType, coin.mainnetConstants, coin.segwit)

(***************************************************************************)
(* Address text.  A string that decodes (its checksum holds) is the record *)
(* of what it encodes; every other string is JunkAddress.                  *)
(***************************************************************************)
H20 == {"h1", "h2"}
H32 == {"w1"}
HashLen(hash) == IF hash \in H32 THEN 32 ELSE 20

Base58Check(ver, hash) ==
  [enc |-> "base58", ver |-> ver, hrp |-> "", wver |-> -1, prefix |-> "", tag |-> "",
   hash |-> hash]
Bech32(hrp, wver, hash) ==
  [enc |-> "bech32", ver |-> -1, hrp |-> hrp, wver |-> wver, prefix |-> "", tag |-> "",
   hash |-> hash]
\* prefix "" : the address is written without its "<prefix>:" part
CashAddr(prefix, tag, hash) ==
  [enc |-> "cashaddr", ver |-> -1, hrp |-> "", wver |-> -1, prefix |-> prefix, tag |-> tag,
   hash |-> hash]
JunkAddress ==
  [enc |-> "junk", ver |-> -1, hrp |-> "", wver |-> -1, prefix |-> "", tag |-> "",
   hash |-> ""]

Addresses ==
  {Base58Check(v, h) : v \in {0, 5, 30, 111}, h \in H20}
    \cup {Bech32(hrp, w, h) : hrp \in {"bc", "tb"}, w \in {0, 1}, h \in H20 \cup H32}
    \cup {CashAddr(pre, tag, h) : pre \in {"bitcoincash", "bchtest", ""},
                                  tag \in {"pubkeyhash", "scripthash"}, h \in H20}
    \cup {JunkAddress}

(***************************************************************************)
(* The checksummed address codec (bitcoincashUtils/cashAddress).           *)
(***************************************************************************)
CashaddrMainnetPrefix == "bitcoincash"
CashaddrTestnetPrefix == "bchtest"

\* cashAddressToHash: the type tag and the hash of a well-formed address;
\* the prefix may be absent.
cashAddressToHash(address) ==
  IF address.enc = "cashaddr"
  THEN [threw |-> FALSE, scriptHash |-> address.hash, type |-> address.tag]
  ELSE [threw |-> TRUE, scriptHash |-> "", type |-> ""]

\* hashToCashAddress
hashToCashAddress(scriptHash, type, prefix) == CashAddr(prefix, type, scriptHash)

(***************************************************************************)
(* bitcoin.payments.p2pkh / p2sh / p2wpkh / p2wsh, by the field given.     *)
(***************************************************************************)
P2WSH(h) == [t |-> "p2wsh", h |-> h]

HashLength(kind) == IF kind = "p2wsh" THEN 32 ELSE 20

PaymentThrew == [threw |-> TRUE, hash |-> "", output |-> NoScript, address |-> JunkAddress]

Payment(kind, hash, network) ==
  [threw |-> FALSE, hash |-> hash,
   output |-> [t |-> kind, h |-> hash],
   address |-> CASE kind = "p2pkh" -> Base58Check(network.pubKeyHash, hash)
                 [] kind = "p2sh" -> Base58Check(network.scriptHash, hash)
                 [] OTHER -> Bech32(network.bech32, 0, hash)]

\* payment({ address, network }): the address must decode under the
\* network's version byte or prefix and hold a hash of the template's length.
paymentFromAddress(kind, address, network) ==
  IF CASE kind = "p2pkh" -> address.enc = "base58" /\ address.ver = network.pubKeyHash
       [] kind = "p2sh" -> address.enc = "base58" /\ address.ver = network.scriptHash
       [] OTHER -> address.enc = "bech32" /\ address.hrp = network.bech32
                   /\ address.wver = 0
     /\ HashLen(address.hash) = HashLength(kind)
  THEN Payment(kind, address.hash, network)
  ELSE PaymentThrew

\* payment({ output, network }): the script must be the template's.
paymentFromOutput(kind, output, network) ==
  IF output.t = kind /\ HashLen(output.h) = HashLength(kind)
  THEN Payment(kind, output.h, network)
  ELSE PaymentThrew

\* payment({ hash, network })
paymentFromHash(kind, hash, network) ==
  IF HashLen(hash) = HashLength(kind) THEN Payment(kind, hash, network) ELSE PaymentThrew

\* Buffer.toString('hex') and Buffer.from(.., 'hex') of a script
scriptToHex(script) == [hex |-> script]
hexToScript(hex) == hex.hex

(***************************************************************************)
(* The script / address translator (keymanager.ts 247-280, 323-532).       *)
(***************************************************************************)
AddressTypes ==
  {"p2pkh", "p2sh", "p2wpkhp2sh", "p2wpkh", "p2wsh", "p2wshp2sh",
   "cashaddrP2PKH", "cashaddrP2SH"}
NoAddressType == "undefined"

\* As guessAddressTypeFromAddress, trying p2sh before p2pkh.
guessAddressTypeScriptHashFirst(address, network, addressType) ==
  IF addressType # NoAddressType THEN [threw |-> FALSE, type |-> addressType]
  ELSE IF ~paymentFromAddress("p2sh", address, network).threw
  THEN [threw |-> FALSE, type |-> "p2sh"]
  ELSE IF ~paymentFromAddress("p2pkh", address, network).threw
  THEN [threw |-> FALSE, type |-> "p2pkh"]
  ELSE IF ~paymentFromAddress("p2wsh", address, network).threw
  THEN [threw |-> FALSE, type |-> "p2wsh"]
  ELSE IF ~paymentFromAddress("p2wpkh", address, network).threw
  THEN [threw |-> FALSE, type |-> "p2wpkh"]
  ELSE IF ~cashAddressToHash(address).threw
  THEN [threw |-> FALSE,
        type |-> IF cashAddressToHash(address).type = "pubkeyhash"
                 THEN "cashaddrP2PKH" ELSE "cashaddrP2SH"]
  ELSE [threw |-> TRUE, type |-> NoAddressType]

\* lines 247-280
guessAddressTypeFromAddress(address, network, addressType) ==
  IF addressType # NoAddressType THEN [threw |-> FALSE, type |-> addressType]
  ELSE IF ~paymentFromAddress("p2pkh", address, network).threw
  THEN [threw |-> FALSE, type |-> "p2pkh"]
  ELSE IF ~paymentFromAddress("p2sh", address, network).threw
  THEN [threw |-> FALSE, type |-> "p2sh"]
  ELSE IF ~paymentFromAddress("p2wsh", address, network).threw
  THEN [threw |-> FALSE, type |-> "p2wsh"]
  ELSE IF ~paymentFromAddress("p2wpkh", address, network).threw
  THEN [threw |-> FALSE, type |-> "p2wpkh"]
  ELSE IF ~cashAddressToHash(address).threw
  THEN [threw |-> FALSE,
        type |-> IF cashAddressToHash(address).type = "pubkeyhash"
                 THEN "cashaddrP2PKH" ELSE "cashaddrP2SH"]
  ELSE [threw |-> TRUE, type |-> NoAddressType]

\* The payment each switch picks (lines 336-349, 389-402, 470-483, 505-520);
\* NoPayment stands for the branches that pick none.
NoPayment == "none"
PaymentOfType(addressType) ==
  CASE addressType = "p2pkh" -> "p2pkh"
    [] addressType \in {"p2sh", "p2wpkhp2sh"} -> "p2sh"
    [] addressType = "p2wpkh" -> "p2wpkh"
    [] addressType = "p2wsh" -> "p2wsh"
    [] OTHER -> NoPayment

\* lines 462-495
scriptHashToScriptPubkey(args) ==
  LET net == bip32NetworkFromCoin(args.network, args.coin, PurposeLegacy)
      kind == PaymentOfType(args.addressType) IN
  IF net.threw THEN Threw(net.error)
  ELSE IF kind = NoPayment THEN Threw("invalid address type in address to script pubkey")
  ELSE IF paymentFromHash(kind, args.scriptHash, net.network).threw
  THEN Threw("payment threw")
  ELSE Returned(scriptToHex(paymentFromHash(kind, args.scriptHash, net.network).output))

\* lines 497-532
scriptPubkeyToScriptHash(args) ==
  LET net == bip32NetworkFromCoin(args.network, args.coin, PurposeLegacy)
      kind == CASE args.addressType = "cashaddrP2PKH" -> "p2pkh"
                [] args.addressType = "cashaddrP2SH" -> "p2sh"
                [] OTHER -> PaymentOfType(args.addressType) IN
  IF net.threw THEN Threw(net.error)
  ELSE IF kind = NoPayment THEN Threw("invalid address type in address to script pubkey")
  ELSE IF paymentFromOutput(kind, hexToScript(args.scriptPubkey), net.network).threw
  THEN Threw("payment threw")
  ELSE Returned(paymentFromOutput(kind, hexToScript(args.scriptPubkey), net.network).hash)

\* lines 323-379
addressToScriptPubkey(args) ==
  LET net == bip32NetworkFromCoin(args.network, args.coin, PurposeLegacy) IN
  IF net.threw THEN Threw(net.error)
  ELSE
  LET guess == guessAddressTypeFromAddress(args.address, net.network, args.addressType)
      kind == PaymentOfType(guess.type) IN
  IF guess.threw THEN Threw("Could not determine address type of")
  ELSE IF guess.type \in {"cashaddrP2PKH", "cashaddrP2SH"}
  THEN IF cashAddressToHash(args.address).threw THEN Threw("cashAddressToHash threw")
       ELSE scriptHashToScriptPubkey(
              [scriptHash |-> cashAddressToHash(args.address).scriptHash,
               network |-> args.network,
               addressType |-> IF guess.type = "cashaddrP2PKH" THEN "p2pkh" ELSE "p2sh",
               coin |-> args.coin])
  ELSE IF kind = NoPayment THEN Threw("invalid address type in address to script pubkey")
  ELSE IF paymentFromAddress(kind, args.address, net.network).threw
  THEN Threw("payment threw")
  ELSE Returned(scriptToHex(paymentFromAddress(kind, args.address, net.network).output))

\* lines 381-460
scriptPubkeyToAddress(args) ==
  LET net == bip32NetworkFromCoin(args.network, args.coin, PurposeLegacy)
      kind == PaymentOfType(args.addressType) IN
  IF net.threw THEN Threw(net.error)
  ELSE IF args.addressType \in {"cashaddrP2PKH", "cashaddrP2SH"}
  THEN LET hash == scriptPubkeyToScriptHash(
                     [scriptPubkey |-> args.scriptPubkey, network |-> args.network,
                      addressType |-> IF args.addressType = "cashaddrP2PKH"
                                      THEN "p2pkh" ELSE "p2sh",
                      coin |-> args.coin]) IN
       IF hash.status = "threw" THEN hash
       ELSE Returned(hashToCashAddress(
                       hash.ret[1],
                       IF args.addressType = "cashaddrP2PKH"
                       THEN "pubkeyhash" ELSE "scripthash",
                       IF args.network = Testnet
                       THEN CashaddrTestnetPrefix ELSE CashaddrMainnetPrefix))
  ELSE IF kind = NoPayment THEN Threw("invalid address type in address to script pubkey")
  ELSE IF paymentFromOutput(kind, hexToScript(args.scriptPubkey), net.network).threw
  THEN Threw("payment threw")
  ELSE Returned(paymentFromOutput(kind, hexToScript(args.scriptPubkey), net.network).address)

(***************************************************************************)
(* Extended keys (bip32 / bip39 as keymanager.ts 282-321, 578-630 uses     *)
(* them).  A key is named by the seed it descends from and the derivation  *)
(* steps taken; the public key of a node is the public key of its private  *)
(* key, on whichever side the steps were taken.                            *)
(***************************************************************************)
MaxAddressIndex == 2

Hardened(i) == [i |-> i, hardened |-> TRUE]
NonHardened(i) == [i |-> i, hardened |-> FALSE]

\* the derivation paths given to mnemonicToXPriv
Paths == {<<Hardened(44), Hardened(0), Hardened(0)>>,
          <<Hardened(84), Hardened(0), Hardened(0)>>}

Mnemonics == {"m1"}

\* ECPair.fromPrivateKey(privateKey).publicKey
PublicKeyOf(privateKey) == [pubOf |-> privateKey]
NoPrivateKey == [seed |-> "", path |-> <<>>]

\* a BIP32Interface: its key, whether it is neutered, and its network
Node(key, neutered, network) == [key |-> key, neutered |-> neutered, network |-> network]

\* bip32.fromSeed(bip39.mnemonicToSeedSync(mnemonic))
fromSeed(mnemonic) == [seed |-> mnemonic, path |-> <<>>]

\* node.derive(index)
derive(node, index) ==
  [node EXCEPT !.key = [@ EXCEPT !.path = Append(@, NonHardened(index))]]

\* node.derivePath(path)
derivePath(node, path) == [node EXCEPT !.key = [@ EXCEPT !.path = @ \o path]]

\* node.neutered()
neutered(node) == [node EXCEPT !.neutered = TRUE]

\* node.privateKey / node.publicKey
privateKey(node) == IF node.neutered THEN NoPrivateKey ELSE node.key
publicKey(node) == PublicKeyOf(node.key)

\* node.toBase58(): the version bytes of the node's network, then the key
toBase58(node) ==
  [version |-> IF node.neutered THEN node.network.bip32.public
               ELSE node.network.bip32.private,
   key |-> node.key, neutered |-> node.neutered]

NoNode == Node(NoPrivateKey, TRUE, NoNetwork)

\* bip32.fromBase58(string, network): the version bytes must be the
\* network's private or public ones
fromBase58(string, network) ==
  IF string.version = network.bip32.private /\ ~string.neutered
  THEN [threw |-> FALSE, node |-> Node(string.key, FALSE, network)]
  ELSE IF string.version = network.bip32.public /\ string.neutered
  THEN [threw |-> FALSE, node |-> Node(string.key, TRUE, network)]
  ELSE [threw |-> TRUE, node |-> NoNode]

\* lines 282-295
mnemonicToXPriv(args) ==
  LET net == bip32NetworkFromCoin(args.network, args.coin, args.type) IN
  IF net.threw THEN Threw(net.error)
  ELSE Returned(toBase58(derivePath(Node(fromSeed(args.mnemonic), FALSE, net.network),
                                    args.path)))

\* lines 297-305
xprivToXPub(args) ==
  LET net == bip32NetworkFromCoin(args.network, args.coin, args.type) IN
  IF net.threw THEN Threw(net.error)
  ELSE IF fromBase58(args.xpriv, net.network).threw THEN Threw("Invalid network version")
  ELSE Returned(toBase58(neutered(fromBase58(args.xpriv, net.network).node)))

\* lines 309-321
xpubToPubkey(args) ==
  LET net == bip32NetworkFromCoin(args.network, args.coin, args.type) IN
  IF net.threw THEN Threw(net.error)
  ELSE IF fromBase58(args.xpub, net.network).threw THEN Threw("Invalid network version")
  ELSE Returned(publicKey(derive(derive(fromBase58(args.xpub, net.network).node,
                                        args.bip44ChangeIndex),
                                 args.bip44AddressIndex)))

\* lines 578-595
xprivToPrivateKey(args) ==
  LET net == bip32NetworkFromCoin(args.network, args.coin, args.type) IN
  IF net.threw THEN Threw(net.error)
  ELSE IF fromBase58(args.xpriv, net.network).threw THEN Threw("Invalid network version")
  ELSE LET node == derive(derive(fromBase58(args.xpriv, net.network).node, 0), 0) IN
       IF node.neutered THEN Threw("Failed to generate private key from xpriv")
       ELSE Returned(privateKey(node))

\* lines 626-630
privateKeyToPubkey(key) == PublicKeyOf(key)

(***************************************************************************)
(* toEdgeTransaction (ProcessorTransaction.ts 61-127).                     *)
(***************************************************************************)
MaxOurOuts == 3

\* scriptPubkeys of the transaction's outputs
OutScripts == {"s1", "s2", "s3"}

Formats == {"bip44", "bip49", "bip84"}

\* processor.fetchAddress: no address, an address without a path, or an
\* address with a path
NoAddress == [found |-> FALSE, hasPath |-> FALSE, format |-> "", changeIndex |-> -1]
AddressWithoutPath == [found |-> TRUE, hasPath |-> FALSE, format |-> "", changeIndex |-> -1]
AddressWithPath(format, changeIndex) ==
  [found |-> TRUE, hasPath |-> TRUE, format |-> format, changeIndex |-> changeIndex]

\* engineInfo.scriptTemplates?.replayProtection: absent, or a template,
\* named here by its derivation-level script hash
NoTemplate == [configured |-> FALSE, level |-> -1]
ReplayLevel == 7
ReplayProtection == [configured |-> TRUE, level |-> ReplayLevel]

\* isPathUsingDerivationLevelScriptHash(scriptTemplate, path)
isPathUsingDerivationLevelScriptHash(scriptTemplate, path) ==
  path.changeIndex = scriptTemplate.level

\* walletTools.scriptPubkeyToAddress({ scriptPubkey, format }).address
walletScriptPubkeyToAddress(scriptPubkey, format) ==
  [scriptPubkey |-> scriptPubkey, format |-> format]

\* parseInt(out)
parseInt(out) == CASE out = "0" -> 0 [] out = "1" -> 1 [] out = "2" -> 2 [] OTHER -> 3

\* As pathFormat, without the replay-protection override.
pathFormatOwn(scriptTemplate, address) == address.format

\* lines 81-88: the format the path carries once the override has run
pathFormat(scriptTemplate, address) ==
  IF scriptTemplate.configured /\ address.found /\ address.hasPath
     /\ isPathUsingDerivationLevelScriptHash(scriptTemplate, address)
  THEN "bip49"
  ELSE address.format

\* lines 67-97: the loop from entry k on; objects is what fetchAddress
\* hands out for each scriptPubkey, shared says whether a later fetch hands
\* out the object an earlier one did.
RECURSIVE ourOutsLoop(_, _, _, _, _, _)
ourOutsLoop(tx, scriptTemplate, objects, shared, k, ourReceiveAddresses) ==
  IF k > Len(tx.ourOuts)
  THEN [threw |-> FALSE, ourReceiveAddresses |-> ourReceiveAddresses, objects |-> objects]
  ELSE IF parseInt(tx.ourOuts[k]) + 1 > Len(tx.outputs)
  THEN [threw |-> TRUE, ourReceiveAddresses |-> ourReceiveAddresses, objects |-> objects]
  ELSE
  LET scriptPubkey == tx.outputs[parseInt(tx.ourOuts[k]) + 1]
      address == IF shared THEN objects[scriptPubkey] ELSE tx.addresses[scriptPubkey]
      after == [address EXCEPT !.format = pathFormat(scriptTemplate, address)] IN
  ourOutsLoop(tx, scriptTemplate, [objects EXCEPT ![scriptPubkey] = after], shared, k + 1,
              IF after.found /\ after.hasPath
              THEN Append(ourReceiveAddresses,
                          walletScriptPubkeyToAddress(scriptPubkey, after.format))
              ELSE ourReceiveAddresses)

\* lines 61-127
toEdgeTransaction(args, shared) ==
  LET loop == ourOutsLoop(args, args.replayProtection, args.addresses, shared, 1, <<>>) IN
  IF loop.threw
  THEN [out |-> Threw("TypeError: cannot read scriptPubkey of undefined"),
        objects |-> loop.objects]
  ELSE [out |-> Returned([txid |-> args.txid, signedTx |-> args.hex,
                          ourReceiveAddresses |-> loop.ourReceiveAddresses]),
        objects |-> loop.objects]

(***************************************************************************)
(* The calls.                                                              *)
(***************************************************************************)
AddrIdle ==
  /\ addrArgs = [address |-> JunkAddress, network |-> Mainnet, coin |-> "bitcoin",
                 addressType |-> NoAddressType]
  /\ scriptOut = NotCalled
  /\ backType = NoAddressType
  /\ addrOut = NotCalled

KeyIdle ==
  /\ keyArgs = [mnemonic |-> "m1", path |-> <<>>, xpriv |-> toBase58(NoNode),
                network |-> Mainnet, type |-> PurposeLegacy, coin |-> "bitcoin",
                bip44ChangeIndex |-> 0, bip44AddressIndex |-> 0]
  /\ xprivOut = NotCalled
  /\ xpubOut = NotCalled
  /\ pubArg = toBase58(NoNode)
  /\ pubOut = NotCalled
  /\ privOut = NotCalled
  /\ privPubOut = NotCalled

EdgeIdle ==
  /\ edgeArgs = [txid |-> "", hex |-> "", outputs |-> <<>>, ourOuts |-> <<>>,
                 addresses |-> [s \in OutScripts |-> NoAddress],
                 replayProtection |-> NoTemplate]
  /\ fetched = [s \in OutScripts |-> NoAddress]
  /\ edgeOut = NotCalled

TxInit ==
  /\ inputs \in SeqsUpTo(TxInputs, MaxInputs)
  /\ outputs \in SeqsUpTo(TxOutputs, MaxOutputs)
  /\ created = [r \in BOOLEAN |-> NotCalled]
  /\ signArgs = [privateKeys |-> <<>>, tx |-> toBase64(EmptyPsbt)]
  /\ signed = SignNotCalled
  /\ AddrIdle
  /\ KeyIdle
  /\ EdgeIdle

CreateTxCall(rbf) ==
  /\ created[rbf].status = "notcalled"
  /\ created' = [created EXCEPT ![rbf] =
                   createTx([inputs |-> inputs, outputs |-> outputs, rbf |-> rbf])]
  /\ UNCHANGED <<inputs, outputs, signArgs, signed, addrVars, keyVars, edgeVars>>

\* The caller signs a draft createTx returned; the base64 string it passed
\* stays its own.
SignTxCall(rbf, privateKeys) ==
  /\ signed.status = "notcalled"
  /\ created[rbf].status = "returned"
  /\ signArgs' = [privateKeys |-> privateKeys, tx |-> created[rbf].ret[1]]
  /\ signed' = signTx(signArgs')
  /\ UNCHANGED <<inputs, outputs, created, addrVars, keyVars, edgeVars>>

Init == TxInit

Next ==
  \/ \E rbf \in BOOLEAN : CreateTxCall(rbf)
  \/ \E rbf \in BOOLEAN, privateKeys \in SeqsUpTo(Keys, MaxKeys) :
        SignTxCall(rbf, privateKeys)

Spec == Init /\ [][Next]_vars

(***************************************************************************)
(* The address calls: an address is turned into a script, and the script   *)
(* back into an address.                                                   *)
(***************************************************************************)
TxIdle ==
  /\ inputs = <<>>
  /\ outputs = <<>>
  /\ created = [r \in BOOLEAN |-> NotCalled]
  /\ signArgs = [privateKeys |-> <<>>, tx |-> toBase64(EmptyPsbt)]
  /\ signed = SignNotCalled

AddrInit ==
  /\ TxIdle
  /\ KeyIdle
  /\ EdgeIdle
  /\ addrArgs \in [address : Addresses, network : Networks, coin : CoinNames,
                    addressType : AddressTypes \cup {NoAddressType}]
  /\ scriptOut = NotCalled
  /\ backType = NoAddressType
  /\ addrOut = NotCalled

AddressToScriptPubkeyCall ==
  /\ scriptOut.status = "notcalled"
  /\ scriptOut' = addressToScriptPubkey(addrArgs)
  /\ UNCHANGED <<txVars, keyVars, edgeVars, addrArgs, backType, addrOut>>

ScriptPubkeyToAddressCall(addressType) ==
  /\ scriptOut.status = "returned"
  /\ addrOut.status = "notcalled"
  /\ backType' = addressType
  /\ addrOut' = scriptPubkeyToAddress(
                  [scriptPubkey |-> scriptOut.ret[1], addressType |-> addressType,
                   network |-> addrArgs.network, coin |-> addrArgs.coin])
  /\ UNCHANGED <<txVars, keyVars, edgeVars, addrArgs, scriptOut>>

AddrNext ==
  \/ AddressToScriptPubkeyCall
  \/ \E addressType \in AddressTypes : ScriptPubkeyToAddressCall(addressType)

SpecAddr == AddrInit /\ [][AddrNext]_vars

(***************************************************************************)
(* The extended-key calls: an account key is made from a mnemonic, or      *)
(* handed in, and turned into its public side and into leaf keys.          *)
(***************************************************************************)
Purposes == {PurposeLegacy, PurposeSegwit, PurposeWrappedSegwit}

\* the private version bytes an account key handed in may carry
XPrivVersions == {76066276, 78791436, 77428856, 70615956}

XPrivs ==
  {[version |-> v, key |-> [seed |-> "m1", path |-> <<Hardened(44), Hardened(0), Hardened(0)>>],
    neutered |-> FALSE] : v \in XPrivVersions}

KeyInit ==
  /\ TxIdle
  /\ AddrIdle
  /\ EdgeIdle
  /\ keyArgs \in [mnemonic : Mnemonics, path : Paths, xpriv : XPrivs,
                   network : Networks, type : Purposes, coin : CoinNames,
                   bip44ChangeIndex : {0, 1}, bip44AddressIndex : 0..MaxAddressIndex]
  /\ xprivOut = NotCalled
  /\ xpubOut = NotCalled
  /\ pubArg = toBase58(NoNode)
  /\ pubOut = NotCalled
  /\ privOut = NotCalled
  /\ privPubOut = NotCalled

MnemonicToXPrivCall ==
  /\ xprivOut.status = "notcalled"
  /\ xprivOut' = mnemonicToXPriv(keyArgs)
  /\ UNCHANGED <<txVars, addrVars, edgeVars, keyArgs, xpubOut, pubArg, pubOut, privOut, privPubOut>>

XPrivToXPubCall ==
  /\ xpubOut.status = "notcalled"
  /\ xpubOut' = xprivToXPub(keyArgs)
  /\ UNCHANGED <<txVars, addrVars, edgeVars, keyArgs, xprivOut, pubArg, pubOut, privOut, privPubOut>>

\* the key strings the caller holds
HeldKeys ==
  {keyArgs.xpriv} \cup (IF xpubOut.status = "returned" THEN {xpubOut.ret[1]} ELSE {})

XPubToPubkeyCall(xpub) ==
  /\ pubOut.status = "notcalled"
  /\ pubArg' = xpub
  /\ pubOut' = xpubToPubkey(
                 [xpub |-> xpub, network |-> keyArgs.network, type |-> keyArgs.type,
                  bip44ChangeIndex |-> keyArgs.bip44ChangeIndex,
                  bip44AddressIndex |-> keyArgs.bip44AddressIndex, coin |-> keyArgs.coin])
  /\ UNCHANGED <<txVars, addrVars, edgeVars, keyArgs, xprivOut, xpubOut, privOut, privPubOut>>

XPrivToPrivateKeyCall ==
  /\ privOut.status = "notcalled"
  /\ privOut' = xprivToPrivateKey(keyArgs)
  /\ UNCHANGED <<txVars, addrVars, edgeVars, keyArgs, xprivOut, xpubOut, pubArg, pubOut, privPubOut>>

PrivateKeyToPubkeyCall ==
  /\ privOut.status = "returned"
  /\ privPubOut.status = "notcalled"
  /\ privPubOut' = Returned(privateKeyToPubkey(privOut.ret[1]))
  /\ UNCHANGED <<txVars, addrVars, edgeVars, keyArgs, xprivOut, xpubOut, pubArg, pubOut, privOut>>

KeyNext ==
  \/ MnemonicToXPrivCall
  \/ XPrivToXPubCall
  \/ \E xpub \in HeldKeys : XPubToPubkeyCall(xpub)
  \/ XPrivToPrivateKeyCall
  \/ PrivateKeyToPubkeyCall

SpecKeys == KeyInit /\ [][KeyNext]_vars

(***************************************************************************)
(* The history-record call: a processor transaction is turned into the     *)
(* wallet's record of it.                                                  *)
(***************************************************************************)
StoredAddresses ==
  {NoAddress, AddressWithoutPath,
   AddressWithPath("bip44", 0), AddressWithPath("bip44", ReplayLevel),
   AddressWithPath("bip84", 0), AddressWithPath("bip49", ReplayLevel)}

\* the transaction's outputs: one to three, paying different scripts
EdgeOutputs ==
  {o \in SeqsUpTo(OutScripts, 3) :
     Len(o) >= 1 /\ \A i, j \in 1..Len(o) : o[i] = o[j] => i = j}

EdgeInit ==
  /\ TxIdle
  /\ AddrIdle
  /\ KeyIdle
  /\ edgeArgs \in [txid : {"t1"}, hex : {"00"},
                    outputs : EdgeOutputs,
                    ourOuts : SeqsUpTo({"0", "1", "2"}, MaxOurOuts),
                    addresses : [OutScripts -> StoredAddresses],
                    replayProtection : {NoTemplate, ReplayProtection}]
  /\ fetched = edgeArgs.addresses
  /\ edgeOut = NotCalled

ToEdgeTransactionCall(shared) ==
  /\ edgeOut.status = "notcalled"
  /\ edgeOut' = toEdgeTransaction(edgeArgs, shared).out
  /\ fetched' = toEdgeTransaction(edgeArgs, shared).objects
  /\ UNCHANGED <<txVars, addrVars, keyVars, edgeArgs>>

EdgeNext == \E shared \in BOOLEAN : ToEdgeTransactionCall(shared)

SpecEdge == EdgeInit /\ [][EdgeNext]_vars

(***************************************************************************)
(* Properties of signTx.                                                   *)
(***************************************************************************)
\* The Psbt the caller handed to signTx.
SignedDraft == fromBase64(signArgs.tx)

\* The positions signTx signs: one per key, as far as the draft has inputs.
SignedPositions == 1..Min(Len(signArgs.privateKeys), Len(SignedDraft.inputs))

\* The key at position i is not the key the output spent by input i commits to.
WrongKeyAt(i) ==
  Hash160(PubKey(signArgs.privateKeys[i])) # OwnerHash(TxidOfHash(SignedDraft.inputs[i].hash))

C2_NoUnsignedInputReturned ==
  /\ signed.status = "returned" =>
       LET tx == signed.ret[1].hex IN
       /\ Len(tx.ins) = Len(SignedDraft.inputs)
       /\ \A i \in 1..Len(tx.ins) :
            /\ tx.ins[i].unlock # NoUnlock
            /\ tx.ins[i].unlock.signature.signer \in Keys
  /\ (signed.status # "notcalled"
      /\ Len(signArgs.privateKeys) < Len(SignedDraft.inputs))
       => (signed.status = "threw" /\ signed.ret = <<>>)

\* C2 witness: one right key for a draft of two inputs; the first input was
\* signed, the second was left unsigned and the call threw.
C2_Witness ==
  /\ signed.status = "threw"
  /\ Len(signArgs.privateKeys) = 1 /\ Len(SignedDraft.inputs) = 2
  /\ ~WrongKeyAt(1)
  /\ signed.signedBefore = 1
  /\ signed.error = "Can not finalize input #"

\* Every Psbt the caller holds after the calls: the drafts createTx returned,
\* the one it passed to signTx, and whatever signTx handed back.
CallerPsbts ==
  {fromBase64(created[r].ret[1]) : r \in {b \in BOOLEAN : created[b].status = "returned"}}
    \cup {SignedDraft}
    \cup {fromBase64(signed.ret[j]) :
            j \in {n \in 1..Len(signed.ret) : "b64" \in DOMAIN signed.ret[n]}}

\* C3 as claimed: when signTx fails after signing some inputs, the caller
\* still holds those signatures (and the draft passed in is unmodified).
C3_PartialSignaturesPreserved ==
  (/\ signed.status = "threw"
   /\ signed.signedBefore >= 1
   /\ signed.error = "Can not sign for this input with the key")
    => /\ \E p \in CallerPsbts : SignedCount(p) >= signed.signedBefore
       /\ \E r \in BOOLEAN : created[r].status = "returned" /\ signArgs.tx = created[r].ret[1]

\* C3 as amended: when signTx fails it gives the caller nothing; the
\* signatures it had attached are gone with its Psbt object, and the caller
\* is left with the unmodified, unsigned draft it passed in.
C3_FailureDiscardsSignatures ==
  signed.status = "threw" =>
    /\ signed.ret = <<>>
    /\ \A p \in CallerPsbts : SignedCount(p) = 0
    /\ \E r \in BOOLEAN :
         /\ created[r].status = "returned"
         /\ signArgs.tx = created[r].ret[1]
         /\ created[r] = createTx([inputs |-> inputs, outputs |-> outputs, rbf |-> r])

\* C3 witness: signing failed at the second input after the first was signed.
C3_Witness ==
  /\ signed.status = "threw"
  /\ signed.signedBefore >= 1
  /\ signed.error = "Can not sign for this input with the key"
  /\ Len(signArgs.privateKeys) >= 2

(***************************************************************************)
(* Properties of createTx.                                                 *)
(***************************************************************************)
\* What the TxInput declaration (lines 139-142) requires of an input's kind.
MissingRequired(input) ==
  IF input.type = Legacy THEN input.prevTx = NoTx
  ELSE input.prevScriptPubkey = NoScript \/ input.value = NoValue

\* C4: an input lacking a field its kind requires makes createTx throw,
\* wherever it stands in the list, and the caller gets no draft.
C4_MissingInputDataRejected ==
  \A r \in BOOLEAN :
    (created[r].status # "notcalled"
     /\ \E i \in 1..Len(inputs) : MissingRequired(inputs[i]))
      => (created[r].status = "threw" /\ created[r].ret = <<>>)

\* C4 witness: a valid input followed by one lacking a required field.
C4_Witness ==
  \E r \in BOOLEAN :
    /\ created[r].status = "threw"
    /\ Len(inputs) = 2
    /\ ~MissingRequired(inputs[1]) /\ MissingRequired(inputs[2])

\* A witness input spending a script-hash output, given without redeem script.
WrappedWithoutRedeemScript(input) ==
  /\ input.type # Legacy
  /\ input.prevScriptPubkey.t = "p2sh"
  /\ input.value # NoValue
  /\ input.redeemScript = NoScript

\* C5 as claimed: createTx throws for a witness input that spends a
\* script-hash-wrapped output and has no redeem script.
C5_WrappedInputNeedsRedeemScript ==
  \A r \in BOOLEAN :
    (created[r].status # "notcalled"
     /\ \E i \in 1..Len(inputs) : WrappedWithoutRedeemScript(inputs[i]))
      => created[r].status = "threw"

\* C6 as claimed: every input's sequence is 0xffffffff without rbf and
\* 0xfffffffc (the two low bits cleared) with rbf.
C6_RbfClearsTwoLowBits ==
  \A r \in BOOLEAN :
    created[r].status = "returned" =>
      \A i \in 1..Len(fromBase64(created[r].ret[1]).inputs) :
        fromBase64(created[r].ret[1]).inputs[i].sequence =
          (IF r THEN U32(65535, 65532) ELSE U32(65535, 65535))

\* C6 as amended: every input's sequence is 0xffffffff without rbf and
\* 0xfffffffd (the maximum less two) with rbf.
C6_RbfSequenceIsMaxLessTwo ==
  \A r \in BOOLEAN :
    created[r].status = "returned" =>
      \A i \in 1..Len(fromBase64(created[r].ret[1]).inputs) :
        fromBase64(created[r].ret[1]).inputs[i].sequence =
          (IF r THEN U32(65535, 65533) ELSE U32(65535, 65535))

\* C6 witness: a draft of two inputs built with rbf.
C6_Witness ==
  /\ created[TRUE].status = "returned"
  /\ Len(fromBase64(created[TRUE].ret[1]).inputs) = 2

\* C7: for the same inputs and outputs, each sequence of the rbf draft is
\* strictly below that of the draft without rbf, both unsigned 32-bit.
C7_RbfSequenceStrictlyLess ==
  (created[TRUE].status = "returned" /\ created[FALSE].status = "returned") =>
    LET withRbf == fromBase64(created[TRUE].ret[1]).inputs
        without == fromBase64(created[FALSE].ret[1]).inputs IN
    /\ Len(withRbf) = Len(without)
    /\ \A i \in 1..Len(withRbf) :
         /\ Less32(withRbf[i].sequence, without[i].sequence)
         /\ IsU32(withRbf[i].sequence) /\ IsU32(without[i].sequence)

\* C7 witness: both drafts were built from the same non-empty inputs.
C7_Witness ==
  /\ created[TRUE].status = "returned" /\ created[FALSE].status = "returned"
  /\ Len(fromBase64(created[TRUE].ret[1]).inputs) >= 1

\* C8: the draft holds the supplied inputs and outputs, in the order given.
C8_OrderPreserved ==
  \A r \in BOOLEAN :
    created[r].status = "returned" =>
      LET psbt == fromBase64(created[r].ret[1]) IN
      /\ Len(psbt.inputs) = Len(inputs)
      /\ \A i \in 1..Len(inputs) :
           /\ TxidOfHash(psbt.inputs[i].hash) = inputs[i].prevTxid
           /\ psbt.inputs[i].index = inputs[i].index
      /\ Len(psbt.outputs) = Len(outputs)
      /\ \A j \in 1..Len(outputs) :
           /\ psbt.outputs[j].script = outputs[j].scriptPubkey
           /\ psbt.outputs[j].value = outputs[j].amount

\* C8 witness: a legacy and a witness input, and two different outputs.
C8_Witness ==
  \E r \in BOOLEAN :
    /\ created[r].status = "returned"
    /\ Len(inputs) = 2 /\ inputs[1].type = Legacy /\ inputs[2].type = Segwit
    /\ inputs[2].redeemScript # NoScript
    /\ Len(outputs) = 2 /\ outputs[1] # outputs[2]


(***************************************************************************)
(* The address translator's claims, over SpecAddr.                         *)
(***************************************************************************)
GuessNetwork == bip32NetworkFromCoin(addrArgs.network, addrArgs.coin, PurposeLegacy).network

\* The five decoders in the claimed order: 1 pubkeyhash, 2 scripthash,
\* 3 witness-scripthash, 4 witness-pubkeyhash, 5 alt-encoded.
DecoderAccepts(k, a, net) ==
  CASE k = 1 -> a.enc = "base58" /\ a.ver = net.pubKeyHash /\ a.hash \in H20
    [] k = 2 -> a.enc = "base58" /\ a.ver = net.scriptHash /\ a.hash \in H20
    [] k = 3 -> a.enc = "bech32" /\ a.hrp = net.bech32 /\ a.wver = 0 /\ a.hash \in H32
    [] k = 4 -> a.enc = "bech32" /\ a.hrp = net.bech32 /\ a.wver = 0 /\ a.hash \in H20
    [] OTHER -> a.enc = "cashaddr"

DecoderScript(k, a) ==
  CASE k = 1 -> P2PKH(a.hash)
    [] k = 2 -> P2SH(a.hash)
    [] k = 3 -> P2WSH(a.hash)
    [] k = 4 -> P2WPKH(a.hash)
    [] OTHER -> IF a.tag = "pubkeyhash" THEN P2PKH(a.hash) ELSE P2SH(a.hash)

Accepting == {k \in 1..5 : DecoderAccepts(k, addrArgs.address, GuessNetwork)}
Earliest == CHOOSE k \in Accepting : \A j \in Accepting : k <= j

\* C9: called without addressType, addressToScriptPubkey returns the script
\* of the earliest decoder, in the order pubkeyhash, scripthash,
\* witness-scripthash, witness-pubkeyhash, alt-encoded, that accepts the
\* address; when none accepts it the call throws and returns no script.
C9_EarliestDecoderWins ==
  (addrArgs.addressType = NoAddressType /\ scriptOut.status # "notcalled") =>
    IF Accepting = {}
    THEN scriptOut = Threw("Could not determine address type of")
    ELSE scriptOut = Returned(scriptToHex(DecoderScript(Earliest, addrArgs.address)))

\* An address two decoders accept has been translated without addressType.
C9_Witness ==
  /\ addrArgs.addressType = NoAddressType
  /\ Cardinality(Accepting) >= 2
  /\ scriptOut.status = "returned"

\* a is a well-formed address of the given type on the network
ValidAddressOfType(a, addressType, net, networkType) ==
  CASE addressType = "p2pkh" -> DecoderAccepts(1, a, net)
    [] addressType \in {"p2sh", "p2wpkhp2sh", "p2wshp2sh"} -> DecoderAccepts(2, a, net)
    [] addressType = "p2wsh" -> DecoderAccepts(3, a, net)
    [] addressType = "p2wpkh" -> DecoderAccepts(4, a, net)
    [] addressType \in {"cashaddrP2PKH", "cashaddrP2SH"} ->
         /\ a.enc = "cashaddr"
         /\ a.tag = (IF addressType = "cashaddrP2PKH" THEN "pubkeyhash" ELSE "scripthash")
         /\ a.prefix = (IF networkType = Testnet
                        THEN CashaddrTestnetPrefix ELSE CashaddrMainnetPrefix)
    [] OTHER -> FALSE

RoundTripFor(types) ==
  (/\ addrArgs.addressType \in types
   /\ ValidAddressOfType(addrArgs.address, addrArgs.addressType, GuessNetwork,
                         addrArgs.network))
    => /\ scriptOut.status # "threw"
       /\ (addrOut.status # "notcalled" /\ backType = addrArgs.addressType)
            => addrOut = Returned(addrArgs.address)

\* C10 as claimed: for each of the eight address types, every coin and
\* network and every valid address a of the type, addressToScriptPubkey
\* succeeds and scriptPubkeyToAddress of its script, with the same type,
\* returns a.
C10_RoundTrip == RoundTripFor(AddressTypes)


(***************************************************************************)
(* The extended-key claims, over SpecKeys.                                 *)
(***************************************************************************)
\* C11 as claimed: the leaf private key xprivToPrivateKey gives for the
\* caller's change and address index has the public key xpubToPubkey gives
\* for the same indices from the xpub of the same xpriv.
C11_LeafKeysAgree ==
  (/\ xpubOut.status = "returned"
   /\ pubArg = xpubOut.ret[1]
   /\ pubOut.status = "returned"
   /\ privPubOut.status = "returned")
    => privPubOut.ret[1] = pubOut.ret[1]



\* the coin's table for the network of the calls
KeyPrefixes ==
  IF keyArgs.network = Testnet
  THEN getCoinFromString(keyArgs.coin).testnetConstants
  ELSE getCoinFromString(keyArgs.coin).mainnetConstants

\* the version-byte pair the table registers for the purpose of the calls
RegisteredPair ==
  CASE keyArgs.type = PurposeSegwit ->
         [public |-> KeyPrefixes.segwitXPub, private |-> KeyPrefixes.segwitXPriv]
    [] keyArgs.type = PurposeWrappedSegwit ->
         [public |-> KeyPrefixes.wrappedSegwitXPub,
          private |-> KeyPrefixes.wrappedSegwitXPriv]
    [] OTHER -> [public |-> KeyPrefixes.legacyXPub, private |-> KeyPrefixes.legacyXPriv]

PurposeLacksBytes ==
  /\ keyArgs.type \in {PurposeSegwit, PurposeWrappedSegwit}
  /\ (RegisteredPair.public = NoPrefix \/ RegisteredPair.private = NoPrefix)

\* C12: with purpose segwit or wrappedSegwit and a table that lacks the
\* public or the private version bytes of the purpose, none of
\* mnemonicToXPriv, xprivToXPub, xpubToPubkey, xprivToPrivateKey returns;
\* and a call that returns has read and written extended keys with the
\* version bytes registered for the requested purpose, and no others.
C12_PurposeBytesOrError ==
  /\ PurposeLacksBytes =>
       \A out \in {xprivOut, xpubOut, pubOut, privOut} :
         out.status # "returned" /\ (out.status = "threw" => out.ret = <<>>)
  /\ xprivOut.status = "returned" => xprivOut.ret[1].version = RegisteredPair.private
  /\ xpubOut.status = "returned" =>
       /\ keyArgs.xpriv.version \in {RegisteredPair.private, RegisteredPair.public}
       /\ xpubOut.ret[1].version = RegisteredPair.public
  /\ pubOut.status = "returned" =>
       pubArg.version \in {RegisteredPair.private, RegisteredPair.public}
  /\ privOut.status = "returned" =>
       keyArgs.xpriv.version \in {RegisteredPair.private, RegisteredPair.public}

\* All four operations have been called for a purpose whose bytes the table
\* lacks, on an account key carrying the coin's legacy bytes, and have thrown.
C12_Witness ==
  /\ PurposeLacksBytes
  /\ keyArgs.xpriv.version = KeyPrefixes.legacyXPriv
  /\ \A out \in {xprivOut, xpubOut, pubOut, privOut} : out.status = "threw"



(***************************************************************************)
(* The history-record claim, over SpecEdge.                                *)
(***************************************************************************)
\* the scriptPubkey entry k of tx.ourOuts names
OurOutScript(k) == edgeArgs.outputs[parseInt(edgeArgs.ourOuts[k]) + 1]

\* the stored address of a scriptPubkey carries a path
HasPath(scriptPubkey) ==
  edgeArgs.addresses[scriptPubkey].found /\ edgeArgs.addresses[scriptPubkey].hasPath

UsesReplayLevel(scriptPubkey) ==
  /\ edgeArgs.replayProtection.configured
  /\ edgeArgs.addresses[scriptPubkey].changeIndex = edgeArgs.replayProtection.level

\* the addresses claimed: for the entries with a path, in the order of
\* tx.ourOuts, format bip49 under replay protection and the path's own otherwise
ClaimedReceiveAddresses ==
  LET scripts == [k \in 1..Len(edgeArgs.ourOuts) |-> OurOutScript(k)]
      kept == SelectSeq(scripts, HasPath) IN
  [i \in 1..Len(kept) |->
     [scriptPubkey |-> kept[i],
      format |-> IF UsesReplayLevel(kept[i])
                 THEN "bip49" ELSE edgeArgs.addresses[kept[i]].format]]

\* C13: toEdgeTransaction's ourReceiveAddresses holds, in the order of
\* tx.ourOuts, one address for each entry whose fetched address has a path:
\* in format bip49 when a replay-protection template is configured and the
\* path uses its derivation-level script hash, in the path's own format
\* otherwise; entries without address or path add nothing.
C13_ReplayProtectionFormat ==
  edgeOut.status = "returned" =>
    edgeOut.ret[1].ourReceiveAddresses = ClaimedReceiveAddresses

\* A record made from three entries: one without a path, one on the
\* replay-protection level whose own format is bip44, one off it.
C13_Witness ==
  /\ edgeOut.status = "returned"
  /\ Len(edgeArgs.ourOuts) = 3
  /\ \E k \in 1..3 : ~HasPath(OurOutScript(k))
  /\ \E i, j \in 1..3 :
       /\ i < j
       /\ HasPath(OurOutScript(i)) /\ HasPath(OurOutScript(j))
       /\ UsesReplayLevel(OurOutScript(i))
       /\ edgeArgs.addresses[OurOutScript(i)].format = "bip44"
       /\ ~UsesReplayLevel(OurOutScript(j))
       /\ edgeArgs.addresses[OurOutScript(j)].format = "bip84"



(***************************************************************************)
(* Keys and inputs by position, over Spec.                                 *)
(***************************************************************************)
\* the positions whose key is not the one the input's script commits to
WrongPositions == {i \in SignedPositions : WrongKeyAt(i)}

\* C14: signTx signs input i with privateKeys[i] and with no other key, in
\* increasing order of i: a returned transaction has as many inputs as
\* there were keys and input i is unlocked by the signature of privateKeys[i]
\* over input i; a key that is not input i's own at some position i, a list
\* of the right keys in another order, or a list longer than the inputs,
\* makes the call throw and return nothing; and when the throw is for a key
\* that cannot sign, every input before the first such position had been
\* signed and none from it on.
C14_KeysMatchInputsByPosition ==
  signed.status # "notcalled" =>
    /\ signed.status = "returned" =>
         LET tx == signed.ret[1].hex IN
         /\ Len(signArgs.privateKeys) = Len(tx.ins)
         /\ \A i \in 1..Len(tx.ins) :
              /\ ~WrongKeyAt(i)
              /\ tx.ins[i].unlock.pubkey = PubKey(signArgs.privateKeys[i])
              /\ tx.ins[i].unlock.signature.signer = signArgs.privateKeys[i]
              /\ tx.ins[i].unlock.signature.hash.index = i
    /\ (WrongPositions # {} \/ Len(signArgs.privateKeys) > Len(SignedDraft.inputs))
         => (signed.status = "threw" /\ signed.ret = <<>>)
    /\ signed.error = "Can not sign for this input with the key" =>
         /\ WrongPositions # {}
         /\ \A j \in WrongPositions :
              (\A i \in WrongPositions : j <= i) => signed.signedBefore = j - 1

\* The two inputs' own keys, handed over in the other order: the call threw
\* at the first position with nothing signed.
C14_Witness ==
  /\ signed.status = "threw"
  /\ Len(signArgs.privateKeys) = 2 /\ Len(SignedDraft.inputs) = 2
  /\ WrongKeyAt(1) /\ WrongKeyAt(2)
  /\ Hash160(PubKey(signArgs.privateKeys[1]))
       = OwnerHash(TxidOfHash(SignedDraft.inputs[2].hash))
  /\ Hash160(PubKey(signArgs.privateKeys[2]))
       = OwnerHash(TxidOfHash(SignedDraft.inputs[1].hash))
  /\ signed.error = "Can not sign for this input with the key"
  /\ signed.signedBefore = 0


====
